---- MODULE Spec2Model ----
(***************************************************************************)
(* fixreal: conversion between fixed-point registers and real numbers.     *)
(*                                                                         *)
(* Numbers.  Python integers are unbounded and every float the functions   *)
(* meet here is a dyadic rational with far fewer than 53 significant bits, *)
(* so both are modelled exactly by one type: a number is a record          *)
(*     [neg |-> BOOLEAN, mag |-> set of exponents]                         *)
(* standing for  (-1)^neg * SUM { 2^e : e \in mag }.  Exponents below 0    *)
(* are fractional bits, and a register of 32 bits is the set of its bits.  *)
(* The inputs drawn below keep every value within 53 significant bits, so  *)
(* that the float arithmetic of the functions is exact on them.            *)
(* Zero is [neg |-> FALSE, mag |-> {}] (Python's -0.0 is not < 0 either).  *)
(***************************************************************************)
EXTENDS Integers, Sequences, FiniteSets

VARIABLES
    pc,          \* "start", "built", "decoded", "encoded", "decoded_buffer",
                 \* "decoded_stream", or "raised" when the last call raised
    call,        \* the function called last
    params,      \* the arguments of get_conv
    conv,        \* the conversion structure built
    err,         \* the exception raised
    name,        \* the argument of conv_from_name
    uval,        \* the register: fix2real's argument, bin2real's unpacked data
    real,        \* the real number: fix2real's result, real2fix's argument
    fix,         \* real2fix's result
    data,        \* the byte buffer of bin2real and stream2real
    endianness,  \* their byte order
    out          \* stream2real's result

vars ==
    <<pc, call, params, conv, err, name, uval, real, fix, data, endianness, out>>

----------------------------------------------------------------------------
(* Exact arithmetic on numbers *)

Num(n, m) == [neg |-> n /\ m # {}, mag |-> m]

Zero == Num(FALSE, {})

\* 2 ** e
Pow2(e) == Num(FALSE, {e})

One == Pow2(0)

MaxOf(S) == CHOOSE x \in S : \A y \in S : y <= x

MinOf(S) == CHOOSE x \in S : \A y \in S : x <= y

\* the bits of S + T: bit i of the sum is the parity of bit i of S, bit i of
\* T and the carry into i, which is raised at a place j < i where both have
\* a bit and is passed on while either has one
MagAdd(S, T) ==
    LET carry(i) ==
            \E j \in S \cap T :
                j < i /\ \A k \in (j + 1) .. (i - 1) : k \in S \cup T
        odd(i) == ((i \in S) # (i \in T)) # carry(i)
    IN  {i \in S \cup T \cup {j + 1 : j \in S \cup T} : odd(i)}

\* the bits of S - T, for S standing for at least T: the borrow into i is
\* raised at a place j < i where only T has a bit and is passed on until a
\* place where only S has one
MagSub(S, T) ==
    LET borrow(i) ==
            \E j \in T \ S :
                j < i /\ \A k \in (j + 1) .. (i - 1) : ~(k \in S \ T)
        odd(i) == ((i \in S) # (i \in T)) # borrow(i)
    IN  IF S \cup T = {} THEN {}
        ELSE {i \in MinOf(S \cup T) .. MaxOf(S \cup T) : odd(i)}

MagLess(S, T) ==
    /\ S # T
    /\ MaxOf((S \ T) \cup (T \ S)) \in T

\* a < b
Less(a, b) ==
    IF a.neg # b.neg THEN a.neg
    ELSE IF a.neg THEN MagLess(b.mag, a.mag)
    ELSE MagLess(a.mag, b.mag)

\* -a
Neg(a) == Num(~a.neg, a.mag)

\* abs(a)
Abs(a) == Num(FALSE, a.mag)

\* a + b
Add(a, b) ==
    IF a.neg = b.neg THEN Num(a.neg, MagAdd(a.mag, b.mag))
    ELSE IF MagLess(a.mag, b.mag) THEN Num(b.neg, MagSub(b.mag, a.mag))
    ELSE Num(a.neg, MagSub(a.mag, b.mag))

\* a - b
Sub(a, b) == Add(a, Neg(b))

\* a * 2^k, for any integer k
Scale(a, k) == Num(a.neg, {e + k : e \in a.mag})

\* a * b, summing the shifts of one operand by the bits of the other
RECURSIVE MulBits(_, _)
MulBits(S, b) ==
    IF S = {} THEN Zero
    ELSE LET e == MaxOf(S) IN Add(MulBits(S \ {e}, b), Scale(b, e))

Mul(a, b) ==
    LET prod == IF Cardinality(a.mag) <= Cardinality(b.mag)
                THEN MulBits(a.mag, Abs(b))
                ELSE MulBits(b.mag, Abs(a))
    IN  Num(a.neg # b.neg, prod.mag)

\* a & b on non-negative integers
BitAnd(a, b) == Num(FALSE, a.mag \cap b.mag)

\* a >> k on a non-negative integer
Shr(a, k) == Num(FALSE, {e - k : e \in {x \in a.mag : x >= k}})

\* a << k on a non-negative integer
Shl(a, k) == Num(FALSE, {e + k : e \in a.mag})

\* a / b for a divisor that is a power of two, of either sign
TrueDiv(a, b) ==
    LET k == CHOOSE e \in b.mag : b.mag = {e}
    IN  Num(a.neg # b.neg, {e - k : e \in a.mag})

\* a // b for a >= 0 and b a power of two
FloorDiv(a, b) ==
    LET k == CHOOSE e \in b.mag : b.mag = {e}
    IN  Num(FALSE, {e - k : e \in {x \in a.mag : x >= k}})

\* divmod(a, 1) for a >= 0, with int() of the quotient
DivMod1(a) ==
    <<Num(FALSE, {e \in a.mag : e >= 0}), Num(FALSE, {e \in a.mag : e < 0})>>

\* sum([2 ** i for i in range(lo, hi)])
RECURSIVE SumPow2(_, _)
SumPow2(lo, hi) ==
    IF lo >= hi THEN Zero ELSE Add(SumPow2(lo, hi - 1), Pow2(hi - 1))

----------------------------------------------------------------------------
(* The conversion structure *)

None == [kind |-> "None"]

ConversionError == "ConversionError"

StructError == "struct.error"

_get_unsigned_params(c) ==
    [c EXCEPT !.sign_mask = Zero,
              !.int_min = Zero,
              !.int_mask = SumPow2(c.bin_point, c.bits),
              !.int_max = SumPow2(0, c.bits - c.bin_point)]

\* the bug of taking the sign bit into int_mask, as for an unsigned format
_get_signed_params_SignInMask(c) ==
    [c EXCEPT !.sign_mask = Pow2(c.bits - 1),
              !.int_min = Neg(Pow2(c.bits - 1 - c.bin_point)),
              !.int_mask = SumPow2(c.bin_point, c.bits),
              !.int_max = SumPow2(0, c.bits - c.bin_point - 1)]

_get_signed_params(c) ==
    [c EXCEPT !.sign_mask = Pow2(c.bits - 1),
              !.int_min = Neg(Pow2(c.bits - 1 - c.bin_point)),
              !.int_mask = SumPow2(c.bin_point, c.bits - 1),
              !.int_max = SumPow2(0, c.bits - c.bin_point - 1)]

\* the struct format character of a width; any other width is not supported
FmtOf(bits) ==
    IF bits = 8 THEN "B"
    ELSE IF bits = 16 THEN "H"
    ELSE IF bits = 32 THEN "I"
    ELSE "unsupported"

\* get_conv: [raised |-> TRUE] or [raised |-> FALSE, conv |-> the structure]
get_conv(bits, bin_point, signed, scaling) ==
    LET conversion_t ==
            [bits |-> bits, bin_point |-> bin_point, signed |-> signed,
             scaling |-> scaling,
             dec_step |-> TrueDiv(One, Pow2(bin_point)),
             dec_mask |-> SumPow2(0, bin_point),
             fmt |-> FmtOf(bits),
             sign_mask |-> Zero, int_min |-> Zero,
             int_mask |-> Zero, int_max |-> Zero]
    IN  IF FmtOf(bits) = "unsupported" THEN [raised |-> TRUE]
        ELSE IF signed
             THEN [raised |-> FALSE, conv |-> _get_signed_params(conversion_t)]
             ELSE [raised |-> FALSE, conv |-> _get_unsigned_params(conversion_t)]

----------------------------------------------------------------------------
(* conv_from_name: names are sequences of one-character strings *)

Digits == <<"0", "1", "2", "3", "4", "5", "6", "7", "8", "9">>

IsDigit(ch) == \E d \in 1..Len(Digits) : Digits[d] = ch

DigitVal(ch) == (CHOOSE d \in 1..Len(Digits) : Digits[d] = ch) - 1

\* re.I: the letters of the pattern match either case
Lower(ch) ==
    IF ch = "U" THEN "u"
    ELSE IF ch = "F" THEN "f"
    ELSE IF ch = "I" THEN "i"
    ELSE IF ch = "X" THEN "x"
    ELSE ch

\* \d+ from position i: the position after the longest run of digits
RECURSIVE DigitRun(_, _)
DigitRun(s, i) ==
    IF i <= Len(s) /\ IsDigit(s[i]) THEN DigitRun(s, i + 1) ELSE i

\* int() of the digits s[i..j-1]
RECURSIVE IntOf(_, _, _)
IntOf(s, i, j) ==
    IF j <= i THEN 0 ELSE 10 * IntOf(s, i, j - 1) + DigitVal(s[j - 1])

CharAt(s, i) == IF i <= Len(s) THEN s[i] ELSE ""

\* re.match(r"^(?P<signed>u?fix)_(?P<bits>\d+)_(?P<binary>\d+)", name, re.I)
\* [matched |-> FALSE] or the groups: signed as written, bits and binary
\* as the positions of their digits
ReMatch(s) ==
    LET p == IF Lower(CharAt(s, 1)) = "u" THEN 2 ELSE 1
        b0 == p + 4
        b1 == DigitRun(s, b0)
        n0 == b1 + 1
        n1 == DigitRun(s, n0)
    IN  IF /\ Lower(CharAt(s, p)) = "f"
           /\ Lower(CharAt(s, p + 1)) = "i"
           /\ Lower(CharAt(s, p + 2)) = "x"
           /\ CharAt(s, p + 3) = "_"
           /\ b1 > b0
           /\ CharAt(s, b1) = "_"
           /\ n1 > n0
        THEN [matched |-> TRUE, signed |-> SubSeq(s, 1, p + 2),
              bits |-> <<b0, b1>>, binary |-> <<n0, n1>>]
        ELSE [matched |-> FALSE]

\* params['signed'] == 'fix'
SignedOfGroup(g) == g = <<"f", "i", "x">>

conv_from_name(s) ==
    LET _match == ReMatch(s)
    IN  IF ~_match.matched THEN [raised |-> TRUE]
        ELSE LET signed == SignedOfGroup(_match.signed)
                 bits == IntOf(s, _match.bits[1], _match.bits[2])
                 binary == IntOf(s, _match.binary[1], _match.binary[2])
             IN  get_conv(bits, binary, signed, One)

----------------------------------------------------------------------------
(* fix2real *)

\* the bug of reading the test as uval & (conv["sign_mask"] > 0)
SignBitSet_Precedence(u, c) == c.signed /\ 0 \in u.mag

\* conv["signed"] and (uval & conv["sign_mask"] > 0)
SignBitSet(u, c) == c.signed /\ Less(Zero, BitAnd(u, c.sign_mask))

\* res / conv["scaling"]
ApplyScaling(res, c) == TrueDiv(res, c.scaling)

fix2real(u, c) ==
    LET int_val == Shr(BitAnd(u, c.int_mask), c.bin_point)
        dec_val == Mul(c.dec_step, BitAnd(u, c.dec_mask))
        res == IF SignBitSet(u, c)
               THEN Add(Add(c.int_min, int_val), dec_val)
               ELSE Add(int_val, dec_val)
    IN  ApplyScaling(res, c)

----------------------------------------------------------------------------
(* real2fix *)

\* the bug of refusing every negative real
Real2FixRaises_AnySign(r, c) == Less(r, Zero)

\* not conv["signed"] and real < 0
Real2FixRaises(r, c) == ~c.signed /\ Less(r, Zero)

\* the bug of encoding a negative real without the shift
Shifted_NoShift(r, c) == r

\* the shifted value: real - conv["int_min"] for a negative real
Shifted(r, c) == IF Less(r, Zero) THEN Sub(r, c.int_min) ELSE r

\* int_val = int(int_val) & (conv["int_mask"] >> conv["bin_point"])
MaskedInt(r1, c) == BitAnd(DivMod1(Abs(r1))[1], Shr(c.int_mask, c.bin_point))

\* dec = dec_val // conv["dec_step"], at most conv["dec_mask"]
FlooredDec(r1, c) ==
    LET dec == FloorDiv(DivMod1(Abs(r1))[2], c.dec_step)
    IN  IF Less(c.dec_mask, dec) THEN c.dec_mask ELSE dec

\* the bug of a correction that rounds up to the next step without a limit
Corrected_RoundUp(r1, int_val, dec, c) ==
    LET val == Add(int_val, Mul(dec, c.dec_step))
    IN  IF Less(TrueDiv(c.dec_step, Pow2(1)), Sub(r1, val))
        THEN Add(dec, One)
        ELSE dec

\* if (val - real) > (real - val + conv["dec_step"]): dec -= 1
Corrected(r1, int_val, dec, c) ==
    LET val == Add(int_val, Mul(dec, c.dec_step))
    IN  IF Less(Add(Sub(r1, val), c.dec_step), Sub(val, r1))
        THEN Sub(dec, One)
        ELSE dec

\* the value returned for sign, int_val and dec
Assemble(sign, int_val, dec, c) ==
    IF sign = 1
    THEN Add(Add(c.sign_mask, BitAnd(Shl(int_val, c.bin_point), c.int_mask)), dec)
    ELSE Add(BitAnd(Shl(int_val, c.bin_point), c.int_mask), dec)

\* real2fix: [raised |-> TRUE] or [raised |-> FALSE, value |-> the number]
real2fix(r, c) ==
    IF Real2FixRaises(r, c) THEN [raised |-> TRUE]
    ELSE LET sign == IF Less(r, Zero) THEN 1 ELSE 0
             r1 == Shifted(r, c)
             int_val == MaskedInt(r1, c)
             dec == Corrected(r1, int_val, FlooredDec(r1, c), c)
         IN  [raised |-> FALSE, value |-> Assemble(sign, int_val, dec, c)]

----------------------------------------------------------------------------
(* struct.unpack, bin2real, stream2real *)

\* struct.calcsize of one item of the format character
ItemSize(fmt) == IF fmt = "B" THEN 1 ELSE IF fmt = "H" THEN 2 ELSE 4

\* the unsigned integer that the bytes b[1..n] spell in the byte order
FromBytes(order, b) ==
    LET n == Len(b)
        place(i) == IF order = "<" THEN i - 1 ELSE n - i
    IN  Num(FALSE, UNION {{e + 8 * place(i) : e \in b[i]} : i \in 1..n})

\* struct.unpack(order + str(count) + fmt, b):
\* [raised |-> TRUE] unless len(b) = count * size, else the tuple of items
Unpack(order, count, fmt, b) ==
    LET size == ItemSize(fmt)
    IN  IF Len(b) # count * size THEN [raised |-> TRUE]
        ELSE [raised |-> FALSE,
              items |-> [k \in 1..count |->
                  FromBytes(order, SubSeq(b, (k - 1) * size + 1, k * size))]]

\* the bug of unpacking the first item of a buffer that holds more
bin2real_FirstItem(binary_string, c, order) ==
    LET size == ItemSize(c.fmt)
    IN  IF Len(binary_string) < size THEN [raised |-> TRUE]
        ELSE LET u == Unpack(order, 1, c.fmt, SubSeq(binary_string, 1, size))
             IN  [raised |-> FALSE, data |-> u.items[1],
                  value |-> fix2real(u.items[1], c)]

bin2real(binary_string, c, order) ==
    LET u == Unpack(order, 1, c.fmt, binary_string)
    IN  IF u.raised THEN [raised |-> TRUE]
        ELSE [raised |-> FALSE, data |-> u.items[1],
              value |-> fix2real(u.items[1], c)]

\* the bug of unpacking in one byte order whatever the caller asks for
stream2real_OneOrder(binary_stream, c, order) ==
    LET size == Len(binary_stream) \div (c.bits \div 8)
        u == Unpack("<", size, c.fmt, binary_stream)
    IN  IF u.raised THEN [raised |-> TRUE]
        ELSE [raised |-> FALSE,
              values |-> [k \in 1..size |-> fix2real(u.items[k], c)]]

stream2real(binary_stream, c, order) ==
    LET size == Len(binary_stream) \div (c.bits \div 8)
        u == Unpack(order, size, c.fmt, binary_stream)
    IN  IF u.raised THEN [raised |-> TRUE]
        ELSE [raised |-> FALSE,
              values |-> [k \in 1..size |-> fix2real(u.items[k], c)]]

----------------------------------------------------------------------------
(* Inputs *)

\* real inputs carry this many bits below the least significant bit
ExtraBits == 2

\* widths up to this one get every register value, wider ones a sample
ExhaustiveBits == 8

\* longest byte buffer
MaxBufLen == 8

Two == Pow2(1)

Half == Pow2(-1)

Scalings == {One, Two, Half}

Widths == {8, 16, 32}

AnyBits == {4, 8, 12, 16, 24, 32, 64}

\* binary points sampled for the wide formats where every one is too many
SampleBinPoints(bits) ==
    IF bits <= ExhaustiveBits THEN 0 .. bits - 1
    ELSE {0, 1, bits \div 2, bits - 2, bits - 1}

\* bit positions lo..hi cut at the boundaries of the fields of the format:
\* the sets of bits that are unions of the pieces reach every boundary
\* value and values in between
Pieces(c, lo, hi) ==
    LET marks == {lo, -1, 0, c.bin_point - 1, c.bin_point,
                  c.bits - 2, c.bits - 1, hi} \cap (lo .. hi)
        rest == (lo .. hi) \ marks
    IN  {{m} : m \in marks} \cup (IF rest = {} THEN {} ELSE {rest})

BitSets(c, lo, hi) ==
    IF c.bits <= ExhaustiveBits THEN SUBSET (lo .. hi)
    ELSE {UNION P : P \in SUBSET Pieces(c, lo, hi)}

\* registers of conv["bits"] bits
RawInputs(c) == {Num(FALSE, S) : S \in BitSets(c, 0, c.bits - 1)}

\* reals from below -2^(bits - bin_point) to above 2^(bits - bin_point),
\* in steps of dec_step / 2^ExtraBits
RealInputs(c) ==
    {Scale(Num(n, S), -c.bin_point) :
        n \in BOOLEAN, S \in BitSets(c, -ExtraBits, c.bits)}

\* bytes 0x81 and 0x02, as the sets of their bits
ByteVals == {{0, 7}, {1}}

Buffers == UNION {[1..n -> ByteVals] : n \in 0..MaxBufLen}

\* "@" is the byte order of the machine
Orders == {"<", ">", "@"}

MachineOrders(order) == IF order = "@" THEN {"<", ">"} ELSE {order}

Prefixes ==
    {<<f, i, x>> : f \in {"f", "F"}, i \in {"i", "I"}, x \in {"x", "X"}}
    \cup {<<u, f, i, x>> : u \in {"u", "U"}, f \in {"f", "F"},
                           i \in {"i", "I"}, x \in {"x", "X"}}
    \cup {<<"f", "o", "x">>, <<"s", "f", "i", "x">>, <<"u", "u", "f", "i", "x">>,
          <<>>}

Numerals ==
    {<<"8">>, <<"1", "6">>, <<"3", "2">>, <<"0">>, <<"7">>, <<"1", "0">>,
     <<"0", "8">>, <<"1", "2">>, <<>>}

Names ==
    {p \o s1 \o b \o s2 \o n \o t :
        p \in Prefixes, b \in Numerals, n \in Numerals,
        s1 \in {<<"_">>}, s2 \in {<<"_">>, <<"-">>}, t \in {<<>>, <<"_", "x">>}}

\* the names of the documentation: fix_8_7, UFix_8_7, and one that raises
DocNames ==
    {<<"f", "i", "x", "_", "8", "_", "7">>,
     <<"U", "F", "i", "x", "_", "8", "_", "7">>,
     <<"f", "i", "x", "_", "8">>}

----------------------------------------------------------------------------
(* The calls *)

Init ==
    /\ pc = "start"
    /\ call = ""
    /\ params = None
    /\ conv = None
    /\ err = ""
    /\ name = <<>>
    /\ uval = None
    /\ real = None
    /\ fix = None
    /\ data = <<>>
    /\ endianness = ""
    /\ out = <<>>

Built(r) ==
    /\ pc' = IF r.raised THEN "raised" ELSE "built"
    /\ err' = IF r.raised THEN ConversionError ELSE ""
    /\ conv' = IF r.raised THEN None ELSE r.conv

CallGetConv(bits, bin_point, signed, scaling) ==
    /\ pc = "start"
    /\ call' = "get_conv"
    /\ params' = [bits |-> bits, bin_point |-> bin_point, signed |-> signed,
                  scaling |-> scaling]
    /\ Built(get_conv(bits, bin_point, signed, scaling))
    /\ UNCHANGED <<name, uval, real, fix, data, endianness, out>>

CallConvFromName(s) ==
    /\ pc = "start"
    /\ call' = "conv_from_name"
    /\ name' = s
    /\ Built(conv_from_name(s))
    /\ UNCHANGED <<params, uval, real, fix, data, endianness, out>>

CallFix2Real(u) ==
    /\ pc = "built"
    /\ call' = "fix2real"
    /\ uval' = u
    /\ real' = fix2real(u, conv)
    /\ pc' = "decoded"
    /\ UNCHANGED <<params, conv, err, name, fix, data, endianness, out>>

Encoded(r) ==
    /\ pc' = IF r.raised THEN "raised" ELSE "encoded"
    /\ err' = IF r.raised THEN ConversionError ELSE ""
    /\ fix' = IF r.raised THEN None ELSE r.value

CallReal2Fix(r) ==
    /\ pc = "built"
    /\ call' = "real2fix"
    /\ real' = r
    /\ Encoded(real2fix(r, conv))
    /\ UNCHANGED <<params, conv, name, uval, data, endianness, out>>

\* real2fix(fix2real(uval, conv), conv)
CallReal2FixOfDecoded ==
    /\ pc = "decoded"
    /\ call' = "real2fix"
    /\ Encoded(real2fix(real, conv))
    /\ UNCHANGED <<params, conv, name, uval, real, data, endianness, out>>

CallBin2Real(b, order) ==
    /\ pc = "built"
    /\ call' = "bin2real"
    /\ data' = b
    /\ endianness' = order
    /\ \E machine \in MachineOrders(order) :
         LET r == bin2real(b, conv, machine)
         IN  /\ pc' = IF r.raised THEN "raised" ELSE "decoded_buffer"
             /\ err' = IF r.raised THEN StructError ELSE ""
             /\ uval' = IF r.raised THEN None ELSE r.data
             /\ real' = IF r.raised THEN None ELSE r.value
    /\ UNCHANGED <<params, conv, name, fix, out>>

CallStream2Real(b, order) ==
    /\ pc = "built"
    /\ call' = "stream2real"
    /\ data' = b
    /\ endianness' = order
    /\ \E machine \in MachineOrders(order) :
         LET r == stream2real(b, conv, machine)
         IN  /\ pc' = IF r.raised THEN "raised" ELSE "decoded_stream"
             /\ err' = IF r.raised THEN StructError ELSE ""
             /\ out' = IF r.raised THEN <<>> ELSE r.values
    /\ UNCHANGED <<params, conv, name, uval, real, fix>>

----------------------------------------------------------------------------
(* Specifications *)

\* building conversion structures, from parameters and from names
NextBuild ==
    \/ pc = "start" /\ \E bits \in AnyBits, bin_point \in 0..63, signed \in BOOLEAN,
          scaling \in Scalings :
         bin_point < bits /\ CallGetConv(bits, bin_point, signed, scaling)
    \/ pc = "start" /\ \E s \in Names : CallConvFromName(s)

SpecBuild == Init /\ [][NextBuild]_vars

\* decoding registers, under every scaling
NextDecode ==
    \/ pc = "start" /\ \E bits \in Widths, bin_point \in 0..31, signed \in BOOLEAN,
          scaling \in Scalings :
         bin_point < bits /\ CallGetConv(bits, bin_point, signed, scaling)
    \/ pc = "built" /\ \E u \in RawInputs(conv) : CallFix2Real(u)

SpecDecode == Init /\ [][NextDecode]_vars

\* decoding a register and encoding the result, scaling 1.0
NextRoundTrip ==
    \/ pc = "start" /\ \E bits \in Widths, bin_point \in 0..31, signed \in BOOLEAN :
         bin_point < bits /\ CallGetConv(bits, bin_point, signed, One)
    \/ pc = "built" /\ \E u \in RawInputs(conv) : CallFix2Real(u)
    \/ CallReal2FixOfDecoded

SpecRoundTrip == Init /\ [][NextRoundTrip]_vars

\* encoding reals
NextEncode ==
    \/ pc = "start" /\ \E bits \in Widths, signed \in BOOLEAN :
         \E bin_point \in SampleBinPoints(bits) :
            CallGetConv(bits, bin_point, signed, One)
    \/ pc = "built" /\ \E r \in RealInputs(conv) : CallReal2Fix(r)

SpecEncode == Init /\ [][NextEncode]_vars

\* decoding byte buffers
NextBuffer ==
    \/ pc = "start" /\ \E bits \in Widths, bin_point \in {0, 5}, signed \in BOOLEAN :
         CallGetConv(bits, bin_point, signed, One)
    \/ pc = "built" /\ \E b \in Buffers, order \in Orders : CallBin2Real(b, order)
    \/ pc = "built" /\ \E b \in Buffers, order \in Orders : CallStream2Real(b, order)

SpecBuffer == Init /\ [][NextBuffer]_vars

\* every call, on a sample of the conversion structures
Next ==
    \/ pc = "start" /\ \E bits \in Widths \cup {24}, signed \in BOOLEAN :
         \E bin_point \in {0, bits - 1} :
            CallGetConv(bits, bin_point, signed, One)
    \/ pc = "start" /\ \E s \in DocNames : CallConvFromName(s)
    \/ pc = "built" /\ \E u \in RawInputs(conv) : CallFix2Real(u)
    \/ CallReal2FixOfDecoded
    \/ pc = "built" /\ \E r \in RealInputs(conv) : CallReal2Fix(r)
    \/ pc = "built" /\ \E b \in Buffers, order \in Orders : CallBin2Real(b, order)
    \/ pc = "built" /\ \E b \in Buffers, order \in Orders : CallStream2Real(b, order)

Spec == Init /\ [][Next]_vars

----------------------------------------------------------------------------
(* Properties *)

\* 2^k - 1
Ones(k) == Sub(Pow2(k), One)

\* a <= b
Leq(a, b) == ~Less(b, a)

\* the register 0b10000001
Raw129 == Num(FALSE, {0, 7})

Is(c, bits, bin_point, signed) ==
    c.bits = bits /\ c.bin_point = bin_point /\ c.signed = signed

\* C1: decoding a register of a format with scaling 1.0 and encoding the
\* result gives the register back: real2fix(fix2real(raw, conv), conv) = raw,
\* and the encoding does not raise.
C1_RoundTrip ==
    (call = "real2fix" /\ uval # None /\ conv.scaling = One)
        => (pc = "encoded" /\ fix = uval)

\* fix_8_7: 0b10000001 decodes to -0.9921875, which encodes to 0b10000001
C1_Witness ==
    /\ pc = "encoded"
    /\ call = "real2fix"
    /\ Is(conv, 8, 7, TRUE)
    /\ uval = Raw129
    /\ real = Num(TRUE, -7 .. -1)
    /\ fix = Raw129

\* the value a register stands for: its two's complement value when the
\* format is signed, over 2^bin_point, over the scaling
ReferenceValue(u, c) ==
    LET whole == IF c.signed /\ Leq(Pow2(c.bits - 1), u)
                 THEN Sub(u, Pow2(c.bits))
                 ELSE u
    IN  TrueDiv(TrueDiv(whole, Pow2(c.bin_point)), c.scaling)

\* what 0b10000001 decodes to in the 8-bit formats of the usage examples
Example129(bin_point, signed) ==
    IF signed
    THEN Neg(TrueDiv(Num(FALSE, 0 .. 6), Pow2(bin_point)))
    ELSE TrueDiv(Raw129, Pow2(bin_point))

\* C2: fix2real returns the reference value of the register: raw, or
\* raw - 2^bits for a signed format and a raw with the top bit set, over
\* 2^bin_point, over the scaling.  0 decodes to 0; 0b10000001 decodes to
\* -127/2^bin_point in a signed 8-bit format and to 129/2^bin_point in an
\* unsigned one (-0.9921875, -3.96875, -127, 1.0078125, 4.03125, 129).
C2_DecodeReference ==
    (pc = "decoded" /\ call = "fix2real") =>
        /\ real = ReferenceValue(uval, conv)
        /\ uval = Zero => real = Zero
        /\ (uval = Raw129 /\ conv.bits = 8 /\ conv.scaling = One)
              => real = Example129(conv.bin_point, conv.signed)

\* fix_8_5: 0b10000001 decodes to -3.96875
C2_Witness ==
    /\ pc = "decoded"
    /\ call = "fix2real"
    /\ Is(conv, 8, 5, TRUE)
    /\ conv.scaling = One
    /\ uval = Raw129
    /\ real = Num(TRUE, {1, 0, -1, -2, -3, -4, -5})

\* the names <prefix>_<bits>_<binary> with the prefix in any mix of cases
CasedNames(lower, bits, bin_point) ==
    {p \o <<"_">> \o bits \o <<"_">> \o bin_point :
        p \in {q \in Prefixes :
                 Len(q) = Len(lower) /\ \A i \in 1..Len(q) : Lower(q[i]) = lower[i]}}

NumeralValue(d) == IntOf(d, 1, Len(d) + 1)

\* C3: conv_from_name ignores the case of the prefix: a name fix_B_P or
\* ufix_B_P in any mix of cases, with B in {8, 16, 32} and P < B, gives
\* get_conv(B, P, signed, 1.0) with signed true for fix and false for ufix.
C3_CaseInsensitive ==
    \A signed \in BOOLEAN, b \in Numerals, n \in Numerals :
        LET lower == IF signed THEN <<"f", "i", "x">> ELSE <<"u", "f", "i", "x">>
        IN  (/\ call = "conv_from_name"
             /\ b # <<>> /\ n # <<>>
             /\ NumeralValue(b) \in Widths
             /\ NumeralValue(n) < NumeralValue(b)
             /\ name \in CasedNames(lower, b, n))
            => /\ pc = "built"
               /\ conv = get_conv(NumeralValue(b), NumeralValue(n), signed, One).conv

\* the largest value of the format
MaxValue(c) == Add(c.int_max, Mul(c.dec_mask, c.dec_step))

InRange(r, c) == Leq(c.int_min, r) /\ Leq(r, MaxValue(c))

\* C4: real2fix rounds to the nearest step: for a real within the range of
\* the format, the value its result decodes to is at most dec_step / 2 away.
C4_Nearest ==
    (pc = "encoded" /\ call = "real2fix" /\ conv.scaling = One
        /\ InRange(real, conv))
        => Leq(Abs(Sub(fix2real(fix, conv), real)), TrueDiv(conv.dec_step, Two))

\* C5: whatever real2fix returns is an integer r with 0 <= r <= 2^bits - 1.
C5_FitsBits ==
    (pc = "encoded" /\ call = "real2fix") =>
        /\ \A e \in fix.mag : e >= 0
        /\ Leq(Zero, fix)
        /\ Leq(fix, Ones(conv.bits))

\* fix_8_7 and -2.0, below int_min = -1: the shifted value is negative, the
\* correction takes 1 off dec = 0, and the result is 127
C5_Witness ==
    /\ pc = "encoded"
    /\ Is(conv, 8, 7, TRUE)
    /\ real = Neg(Two)
    /\ Less(Shifted(real, conv), Zero)
    /\ FlooredDec(Shifted(real, conv), conv) = Zero
    /\ fix = Ones(7)

\* the fields the claim gives for a structure of the parameters
ExpectedConv(a) ==
    LET whole == a.bits - a.bin_point
    IN  [bits |-> a.bits, bin_point |-> a.bin_point, signed |-> a.signed,
         scaling |-> a.scaling,
         fmt |-> FmtOf(a.bits),
         dec_step |-> TrueDiv(One, Pow2(a.bin_point)),
         dec_mask |-> Ones(a.bin_point),
         sign_mask |-> IF a.signed THEN Pow2(a.bits - 1) ELSE Zero,
         int_min |-> IF a.signed THEN Neg(Pow2(whole - 1)) ELSE Zero,
         int_mask |-> Num(FALSE, a.bin_point .. (IF a.signed THEN a.bits - 2
                                                             ELSE a.bits - 1)),
         int_max |-> IF a.signed THEN Ones(whole - 1) ELSE Ones(whole)]

\* C6: get_conv(bits, bin_point, signed, scaling) with 0 <= bin_point < bits
\* raises for a width other than 8, 16 and 32 and returns no structure;
\* otherwise dec_step = 1/2^bin_point > 0, dec_mask = 2^bin_point - 1, and
\* sign_mask, int_min, int_mask and int_max are those of the sign; the three
\* masks are pairwise disjoint and add up to 2^bits - 1.
C6_Descriptor ==
    (call = "get_conv" /\ params.bin_point < params.bits) =>
        IF params.bits \in {8, 16, 32}
        THEN /\ pc = "built"
             /\ conv = ExpectedConv(params)
             /\ Less(Zero, conv.dec_step)
             /\ conv.sign_mask.mag \cap conv.int_mask.mag = {}
             /\ conv.sign_mask.mag \cap conv.dec_mask.mag = {}
             /\ conv.int_mask.mag \cap conv.dec_mask.mag = {}
             /\ Add(Add(conv.sign_mask, conv.int_mask), conv.dec_mask)
                  = Ones(conv.bits)
        ELSE /\ pc = "raised"
             /\ err = ConversionError
             /\ conv = None

\* a signed structure of 32 bits with 31 of them fractional
C6_Witness ==
    /\ pc = "built"
    /\ call = "get_conv"
    /\ Is(conv, 32, 31, TRUE)
    /\ conv.int_mask = Zero
    /\ conv.int_min = Neg(One)
    /\ conv.sign_mask = Pow2(31)

\* C7: real2fix raises exactly for a negative real and an unsigned format,
\* and then returns nothing; otherwise it returns a value.
C7_SignError ==
    (call = "real2fix") =>
        /\ pc = "raised" <=> (~conv.signed /\ Less(real, Zero))
        /\ pc = "raised" => (fix = None /\ err = ConversionError)
        /\ pc # "raised" => (pc = "encoded" /\ fix # None)

\* an unsigned format and a negative real
C7_Witness ==
    /\ pc = "raised"
    /\ call = "real2fix"
    /\ ~conv.signed
    /\ real = Neg(Half)
    /\ fix = None

\* the unsigned integer bytes spell: the first byte counts least in "<",
\* the last byte counts least in ">"
RECURSIVE Spelled(_, _)
Spelled(b, order) ==
    IF b = <<>> THEN Zero
    ELSE IF order = "<"
         THEN Add(Num(FALSE, Head(b)), Scale(Spelled(Tail(b), order), 8))
         ELSE Add(Num(FALSE, b[Len(b)]),
                  Scale(Spelled(SubSeq(b, 1, Len(b) - 1), order), 8))

\* C8: for the byte orders "<" and ">", stream2real of a buffer of
\* n * (bits/8) bytes returns n values, the i-th being bin2real of the i-th
\* slice of bits/8 bytes, which is fix2real of the integer the slice spells.
C8_Sequence ==
    (call = "stream2real" /\ endianness \in {"<", ">"}
        /\ Len(data) % (conv.bits \div 8) = 0) =>
        LET size == conv.bits \div 8
            n == Len(data) \div size
            slice(i) == SubSeq(data, (i - 1) * size + 1, i * size)
        IN  /\ pc = "decoded_stream"
            /\ Len(out) = n
            /\ \A i \in 1..n :
                 /\ ~bin2real(slice(i), conv, endianness).raised
                 /\ out[i] = bin2real(slice(i), conv, endianness).value
                 /\ out[i] = fix2real(Spelled(slice(i), endianness), conv)

\* two big-endian 16-bit registers 0x8102 and 0x0281
C8_Witness ==
    /\ pc = "decoded_stream"
    /\ endianness = ">"
    /\ conv.bits = 16
    /\ data = <<{0, 7}, {1}, {1}, {0, 7}>>
    /\ Len(out) = 2
    /\ out[1] = fix2real(Num(FALSE, {1, 8, 15}), conv)
    /\ out[2] = fix2real(Num(FALSE, {0, 7, 9}), conv)

\* C9: bin2real raises unless the buffer has bits/8 bytes, stream2real
\* raises unless its length is a multiple of bits/8; a call that raises
\* returns nothing.
C9_LengthErrors ==
    /\ call = "bin2real" =>
         /\ pc = "raised" <=> Len(data) # conv.bits \div 8
         /\ pc = "raised" => (err = StructError /\ real = None /\ uval = None)
    /\ call = "stream2real" =>
         /\ pc = "raised" <=> Len(data) % (conv.bits \div 8) # 0
         /\ pc = "raised" => (err = StructError /\ out = <<>>)

\* bin2real of two registers' worth of bytes
C9_Witness ==
    /\ pc = "raised"
    /\ call = "bin2real"
    /\ Len(data) = 2 * (conv.bits \div 8)
    /\ real = None

\* C10: for a signed format the result of real2fix has the sign bit set
\* exactly when the real is negative.
C10_SignBit ==
    (pc = "encoded" /\ call = "real2fix" /\ conv.signed) =>
        (Leq(conv.sign_mask, fix) <=> Less(real, Zero))

====
